---- MODULE Spec2Model ----
(***************************************************************************)
(* Model of task_1.py: the contact manager's validated fields (Name,       *)
(* Phone, Birthday), Record, AddressBook, the upcoming-birthday scheduler  *)
(* and the command loop of main().                                         *)
(*                                                                         *)
(* Python strings are sequences of one-character strings.  An optional     *)
(* value (None or an object) is a sequence of length 0 or 1.  A call       *)
(* returns a record that carries the exception it raised, if any.          *)
(***************************************************************************)
EXTENDS Integers, Sequences, FiniteSets, TLC

VARIABLES phones, call, book, gone, disk, pc, out, cmd, today, upcoming,
          projected, text, bval, shown, again

vars == <<phones, call, book, gone, disk, pc, out, cmd, today, upcoming,
          projected, text, bval, shown, again>>

\* ------------------------------------------------------------------------
\* Program constants
\* ------------------------------------------------------------------------
MAX_NAME_LENGTH == 21

PHONE_LENGTH == 10

WEEKEND_DAYS == {5, 6}

\* ------------------------------------------------------------------------
\* Bounds of the model
\* ------------------------------------------------------------------------
\* number of distinct well-formed phone strings offered as arguments
NumPhones == 3

\* last year from which date.today() is drawn (the first is 2023)
MaxYear == 2025

\* number of birth years offered to the Birthday constructor
NumBirthYears == 2

\* ------------------------------------------------------------------------
\* Strings
\* ------------------------------------------------------------------------
Digits == <<"0", "1", "2", "3", "4", "5", "6", "7", "8", "9">>

DigitChars == {Digits[i] : i \in 1..10}

DigitVal(c) == (CHOOSE i \in 1..10 : Digits[i] = c) - 1

\* str.isdigit(): non-empty and every character a digit
isdigit(s) == Len(s) > 0 /\ \A i \in 1..Len(s) : s[i] \in DigitChars

Contains(s, c) == \E i \in 1..Len(s) : s[i] = c

RECURSIVE Repeat(_, _)
Repeat(c, n) == IF n = 0 THEN <<>> ELSE <<c>> \o Repeat(c, n - 1)

\* zero-padded decimal rendering of n in w characters
RECURSIVE Pad(_, _)
Pad(n, w) == IF w = 0 THEN <<>> ELSE Pad(n \div 10, w - 1) \o <<Digits[(n % 10) + 1]>>

RECURSIVE ToInt(_)
ToInt(s) == IF Len(s) = 0 THEN 0
            ELSE 10 * ToInt(SubSeq(s, 1, Len(s) - 1)) + DigitVal(s[Len(s)])

\* ------------------------------------------------------------------------
\* Exceptions and optional values
\* ------------------------------------------------------------------------
NoExc == [type |-> "None", msg |-> ""]

ValueError(m) == [type |-> "ValueError", msg |-> m]

KeyError(m) == [type |-> "KeyError", msg |-> m]

Raised(r) == r.exc.type # "None"

None == <<>>

IsNone(o) == Len(o) = 0

\* ------------------------------------------------------------------------
\* datetime.date, as the code uses it
\* ------------------------------------------------------------------------
IsLeap(y) == y % 4 = 0 /\ (y % 100 # 0 \/ y % 400 = 0)

DaysInMonth(y, m) == IF m = 2 THEN (IF IsLeap(y) THEN 29 ELSE 28)
                     ELSE IF m \in {4, 6, 9, 11} THEN 30 ELSE 31

\* the date constructor's range check; MINYEAR = 1, MAXYEAR = 9999
ValidDate(y, m, d) == /\ y \in 1..9999
                      /\ m \in 1..12
                      /\ d \in 1..DaysInMonth(y, m)

Date(y, m, d) == [y |-> y, m |-> m, d |-> d]

RECURSIVE DaysBeforeMonth(_, _)
DaysBeforeMonth(y, m) == IF m = 1 THEN 0
                         ELSE DaysBeforeMonth(y, m - 1) + DaysInMonth(y, m - 1)

\* date.toordinal(): 1 for 0001-01-01
toordinal(dt) == LET y1 == dt.y - 1
                 IN  y1 * 365 + (y1 \div 4) - (y1 \div 100) + (y1 \div 400)
                     + DaysBeforeMonth(dt.y, dt.m) + dt.d

\* date.weekday(): 0 = Monday .. 6 = Sunday
weekday(dt) == (toordinal(dt) + 6) % 7

\* date < date
DateLess(a, b) == toordinal(a) < toordinal(b)

NextDay(dt) == IF dt.d < DaysInMonth(dt.y, dt.m) THEN Date(dt.y, dt.m, dt.d + 1)
               ELSE IF dt.m < 12 THEN Date(dt.y, dt.m + 1, 1)
               ELSE Date(dt.y + 1, 1, 1)

\* date + timedelta(days=n), n >= 0
RECURSIVE AddDays(_, _)
AddDays(dt, n) == IF n = 0 THEN dt ELSE AddDays(NextDay(dt), n - 1)

\* date.strftime(DATE_FORMAT) with DATE_FORMAT = "%d-%m-%Y"
strftime(dt) == Pad(dt.d, 2) \o <<"-">> \o Pad(dt.m, 2) \o <<"-">> \o Pad(dt.y, 4)

\* str(date) is date.isoformat(): YYYY-MM-DD
isoformat(dt) == Pad(dt.y, 4) \o <<"-">> \o Pad(dt.m, 2) \o <<"-">> \o Pad(dt.d, 2)

\* The regular expression strptime builds for %d:
\* 3[0-1] | [1-2]\d | 0[1-9] | [1-9] | " "[1-9]
MatchDay(s) == \/ Len(s) = 2 /\ s[1] = "3" /\ s[2] \in {"0", "1"}
               \/ Len(s) = 2 /\ s[1] \in {"1", "2"} /\ s[2] \in DigitChars
               \/ Len(s) = 2 /\ s[1] = "0" /\ s[2] \in DigitChars \ {"0"}
               \/ Len(s) = 1 /\ s[1] \in DigitChars \ {"0"}
               \/ Len(s) = 2 /\ s[1] = " " /\ s[2] \in DigitChars \ {"0"}

\* for %m: 1[0-2] | 0[1-9] | [1-9]
MatchMonth(s) == \/ Len(s) = 2 /\ s[1] = "1" /\ s[2] \in {"0", "1", "2"}
                 \/ Len(s) = 2 /\ s[1] = "0" /\ s[2] \in DigitChars \ {"0"}
                 \/ Len(s) = 1 /\ s[1] \in DigitChars \ {"0"}

\* for %Y: \d\d\d\d
MatchYear(s) == Len(s) = 4 /\ \A i \in 1..4 : s[i] \in DigitChars

StripSpace(s) == IF Len(s) > 0 /\ s[1] = " " THEN Tail(s) ELSE s

\* the positions of the two separators of a string that matches the whole
\* pattern %d-%m-%Y; the match must consume the string to its end
Splits(s) == {p \in (1..Len(s)) \X (1..Len(s)) :
                 /\ p[1] < p[2]
                 /\ s[p[1]] = "-" /\ s[p[2]] = "-"
                 /\ MatchDay(SubSeq(s, 1, p[1] - 1))
                 /\ MatchMonth(SubSeq(s, p[1] + 1, p[2] - 1))
                 /\ MatchYear(SubSeq(s, p[2] + 1, Len(s)))}

\* datetime.strptime(value, DATE_FORMAT).date(): the date, or None when
\* strptime raises ValueError
strptime(s) == IF Splits(s) = {} THEN None
               ELSE LET p == CHOOSE q \in Splits(s) : TRUE
                        d == ToInt(StripSpace(SubSeq(s, 1, p[1] - 1)))
                        m == ToInt(SubSeq(s, p[1] + 1, p[2] - 1))
                        y == ToInt(SubSeq(s, p[2] + 1, Len(s)))
                    IN  IF ValidDate(y, m, d) THEN <<Date(y, m, d)>> ELSE None

\* ------------------------------------------------------------------------
\* Fields
\* ------------------------------------------------------------------------
\* Name.__init__ accepts the value
NameOk(value) == ~(Len(value) > MAX_NAME_LENGTH)

\* Phone.__init__ accepts the value
PhoneOk(value) == ~(~isdigit(value) \/ Len(value) # PHONE_LENGTH)

PhoneError == ValueError("Phone number must be a 10-digit number.")

NameError == ValueError("Name must be at most 21 characters long.")

\* Birthday.__init__: val is the stored date
Birthday(value) ==
    LET parsed == strptime(value)
    IN  IF IsNone(parsed)
        THEN IF ~Contains(value, "-")
             THEN [val |-> None, exc |-> ValueError("Invalid date format. Use d-m-Y.")]
             ELSE [val |-> None, exc |-> ValueError("Invalid date: does not exist.")]
        ELSE [val |-> parsed, exc |-> NoExc]

\* Field.__str__ of a Birthday: str(self.value)
BirthdayStr(dt) == isoformat(dt)

\* ------------------------------------------------------------------------
\* Record: the phone list
\* ------------------------------------------------------------------------
\* Record.find_phone: the first stored phone equal to phone, or None
find_phone(ps, phone) ==
    IF \E i \in 1..Len(ps) : ps[i] = phone
    THEN <<CHOOSE i \in 1..Len(ps) :
             ps[i] = phone /\ \A j \in 1..(i - 1) : ps[j] # phone>>
    ELSE None

RemoveAt(s, i) == SubSeq(s, 1, i - 1) \o SubSeq(s, i + 1, Len(s))

add_phone_nodupcheck(ps, phone) ==
    IF ~PhoneOk(phone) THEN [phones |-> ps, exc |-> PhoneError]
    ELSE [phones |-> Append(ps, phone), exc |-> NoExc]

\* Record.add_phone
add_phone(ps, phone) ==
    IF ~IsNone(find_phone(ps, phone))
    THEN [phones |-> ps, exc |-> ValueError("Phone already exists")]
    ELSE IF ~PhoneOk(phone) THEN [phones |-> ps, exc |-> PhoneError]
    ELSE [phones |-> Append(ps, phone), exc |-> NoExc]

\* Record.remove_phone
remove_phone(ps, phone) ==
    LET phone_obj == find_phone(ps, phone)
    IN  IF IsNone(phone_obj)
        THEN [phones |-> ps, exc |-> ValueError("Phone not found in this contact.")]
        ELSE [phones |-> RemoveAt(ps, phone_obj[1]), exc |-> NoExc]

edit_phone_novalidate(ps, old_phone, new_phone) ==
    IF IsNone(find_phone(ps, old_phone))
    THEN [phones |-> ps, exc |-> ValueError("Phone not found in this contact.")]
    ELSE LET r == remove_phone(ps, old_phone)
         IN  IF Raised(r) THEN r ELSE add_phone(r.phones, new_phone)

\* Record.edit_phone: the lookup of old, the validation of new, then
\* remove_phone followed by add_phone; an exception leaves the list as the
\* calls made before it left it
edit_phone(ps, old_phone, new_phone) ==
    IF IsNone(find_phone(ps, old_phone))
    THEN [phones |-> ps, exc |-> ValueError("Phone not found in this contact.")]
    ELSE IF ~PhoneOk(new_phone) THEN [phones |-> ps, exc |-> PhoneError]
    ELSE LET r == remove_phone(ps, old_phone)
         IN  IF Raised(r) THEN r ELSE add_phone(r.phones, new_phone)

\* ------------------------------------------------------------------------
\* Argument strings offered to the operations
\* ------------------------------------------------------------------------
\* the i-th well-formed phone: nine zeros and the digit i
ValidPhone(i) == Repeat("0", PHONE_LENGTH - 1) \o <<Digits[i + 1]>>

ValidPhones == {ValidPhone(i) : i \in 1..NumPhones}

\* a string one digit short, and a string of the right length with a letter
BadPhones == {Repeat("0", PHONE_LENGTH - 1), Repeat("0", PHONE_LENGTH - 1) \o <<"x">>}

PhoneArgs == ValidPhones \cup BadPhones

NoCall == [op |-> "init", a1 |-> <<>>, a2 |-> <<>>, exc |-> NoExc, before |-> <<>>]

\* the variables a specification does not use keep these values
IdleRecord == phones = <<>>

IdleBook == book = <<>> /\ gone = {}

IdleSession == disk = <<>> /\ out = <<>> /\ cmd = ""

IdleSched == today = Date(1, 1, 1) /\ upcoming = <<>> /\ projected = <<>>

IdleBirthday == text = <<>> /\ bval = None /\ shown = <<>> /\ again = None

\* ------------------------------------------------------------------------
\* One Record under add_phone, remove_phone and edit_phone
\* ------------------------------------------------------------------------
\* Record.__init__: the phone list is empty
InitRecord == /\ phones = <<>>
              /\ call = NoCall
              /\ pc = "record"
              /\ IdleBook /\ IdleSession /\ IdleSched /\ IdleBirthday

AddPhone == \E p \in PhoneArgs :
    LET r == add_phone(phones, p)
    IN  /\ phones' = r.phones
        /\ call' = [op |-> "add_phone", a1 |-> p, a2 |-> <<>>, exc |-> r.exc,
                    before |-> phones]
        /\ UNCHANGED <<book, gone, disk, pc, out, cmd, today, upcoming,
                       projected, text, bval, shown, again>>

RemovePhone == \E p \in PhoneArgs :
    LET r == remove_phone(phones, p)
    IN  /\ phones' = r.phones
        /\ call' = [op |-> "remove_phone", a1 |-> p, a2 |-> <<>>, exc |-> r.exc,
                    before |-> phones]
        /\ UNCHANGED <<book, gone, disk, pc, out, cmd, today, upcoming,
                       projected, text, bval, shown, again>>

EditPhone == \E old \in PhoneArgs, new \in PhoneArgs :
    LET r == edit_phone(phones, old, new)
    IN  /\ phones' = r.phones
        /\ call' = [op |-> "edit_phone", a1 |-> old, a2 |-> new, exc |-> r.exc,
                    before |-> phones]
        /\ UNCHANGED <<book, gone, disk, pc, out, cmd, today, upcoming,
                       projected, text, bval, shown, again>>

NextRecord == AddPhone \/ RemovePhone \/ EditPhone

SpecRecord == InitRecord /\ [][NextRecord]_vars

Present(ps, p) == \E i \in 1..Len(ps) : ps[i] = p

EditCalled == call.op = "edit_phone"

\* C1: edit_phone(old, new) with old present and a well-formed new, different
\* from old, already present fails with the duplicate error and leaves the
\* phone list as it was, so old is still present.
C1_EditDuplicateAtomic ==
    (/\ EditCalled
     /\ Present(call.before, call.a1)
     /\ Present(call.before, call.a2)
     /\ PhoneOk(call.a2)
     /\ call.a1 # call.a2)
    => (/\ call.exc = ValueError("Phone already exists")
        /\ phones = call.before
        /\ Present(phones, call.a1))

\* C7: edit_phone fails with a ValueError and leaves the phone list exactly
\* as it was whenever old is absent or new is not a well-formed phone; a
\* malformed new never leaves the record with neither old nor new.
C7_EditRejectAtomic ==
    (EditCalled /\ (~Present(call.before, call.a1) \/ ~PhoneOk(call.a2)))
    => (/\ call.exc.type = "ValueError"
        /\ phones = call.before
        /\ (Present(call.before, call.a1) => Present(phones, call.a1)))

C7_Witness ==
    /\ EditCalled
    /\ Present(call.before, call.a1)
    /\ ~PhoneOk(call.a2)
    /\ Len(call.before) >= 2
    /\ call.exc = PhoneError

C7_WitnessAbsent ==
    /\ EditCalled
    /\ ~Present(call.before, call.a1)
    /\ PhoneOk(call.a2)
    /\ call.exc = ValueError("Phone not found in this contact.")

NoDuplicates(ps) == \A i, j \in 1..Len(ps) : ps[i] = ps[j] => i = j

\* C8: after any sequence of add_phone, remove_phone and edit_phone calls no
\* two stored phones are equal, and an add_phone of a phone already present
\* is rejected with the duplicate error and leaves the list unchanged.
C8_UniquePhones ==
    /\ NoDuplicates(phones)
    /\ (call.op = "add_phone" /\ Present(call.before, call.a1))
       => (call.exc = ValueError("Phone already exists") /\ phones = call.before)

C8_Witness ==
    /\ call.op = "add_phone"
    /\ Present(call.before, call.a1)
    /\ Len(phones) >= 2
    /\ Raised(call)

\* ------------------------------------------------------------------------
\* AddressBook: a dict from name to Record, kept in insertion order
\* ------------------------------------------------------------------------
\* Record.__init__, for a name that Name accepts
NewRecord(name) == [name |-> name, phones |-> <<>>, birthday |-> None]

\* the position of the key in self.data, 0 when it is not a key
IndexOf(bk, name) ==
    IF \E i \in 1..Len(bk) : bk[i].name = name
    THEN CHOOSE i \in 1..Len(bk) : bk[i].name = name
    ELSE 0

\* AddressBook.add_record: self.data[record.name.value] = record
add_record(bk, record) ==
    LET i == IndexOf(bk, record.name)
    IN  IF i = 0 THEN Append(bk, record) ELSE [bk EXCEPT ![i] = record]

\* AddressBook.find: self.data.get(name)
find(bk, name) ==
    LET i == IndexOf(bk, name)
    IN  IF i = 0 THEN None ELSE <<bk[i]>>

Msg(k) == [kind |-> k, data |-> <<>>]

NoOut == Msg("")

delete_keeps(bk, name) ==
    IF IndexOf(bk, name) # 0
    THEN [book |-> bk, ret |-> Msg("Contact has been deleted"), exc |-> NoExc]
    ELSE [book |-> bk, ret |-> NoOut, exc |-> KeyError("Contact not found.")]

\* AddressBook.delete
delete(bk, name) ==
    IF IndexOf(bk, name) # 0
    THEN [book |-> RemoveAt(bk, IndexOf(bk, name)),
          ret |-> Msg("Contact has been deleted"), exc |-> NoExc]
    ELSE [book |-> bk, ret |-> NoOut, exc |-> KeyError("Contact not found.")]

\* ------------------------------------------------------------------------
\* The AddressBook under add_record, find and delete
\* ------------------------------------------------------------------------
\* number of distinct contact names offered as arguments
NumNames == 2

Letters == <<"a", "b", "c", "d", "e", "f", "g", "h">>

\* the i-th name: the i-th letter, twice
ValidName(i) == <<Letters[i], Letters[i]>>

ValidNames == {ValidName(i) : i \in 1..NumNames}

SampleBirthday == Date(1990, 12, 22)

\* the Records offered to add_record
BookRecords == {[name |-> n, phones |-> ps, birthday |-> b] :
                   n \in ValidNames,
                   ps \in {<<>>, <<ValidPhone(1)>>},
                   b \in {None, <<SampleBirthday>>}}

InitBook == /\ book = <<>>
            /\ gone = {}
            /\ call = NoCall
            /\ out = NoOut
            /\ pc = "book"
            /\ disk = <<>> /\ cmd = ""
            /\ IdleRecord /\ IdleSched /\ IdleBirthday

BookCall(op, name, exc) == [op |-> op, a1 |-> name, a2 |-> <<>>, exc |-> exc,
                            before |-> book]

AddRecord == \E r \in BookRecords :
    /\ book' = add_record(book, r)
    /\ gone' = gone \ {r.name}
    /\ call' = BookCall("add_record", r.name, NoExc)
    /\ out' = NoOut
    /\ UNCHANGED <<phones, disk, pc, cmd, today, upcoming, projected, text,
                   bval, shown, again>>

Find == \E n \in ValidNames :
    /\ out' = [kind |-> "find", data |-> find(book, n)]
    /\ call' = BookCall("find", n, NoExc)
    /\ UNCHANGED <<phones, book, gone, disk, pc, cmd, today, upcoming,
                   projected, text, bval, shown, again>>

\* gone: the names deleted and not added again since
Delete == \E n \in ValidNames :
    LET r == delete(book, n)
    IN  /\ book' = r.book
        /\ gone' = IF Raised(r) THEN gone ELSE gone \cup {n}
        /\ call' = BookCall("delete", n, r.exc)
        /\ out' = r.ret
        /\ UNCHANGED <<phones, disk, pc, cmd, today, upcoming, projected,
                       text, bval, shown, again>>

NextBook == AddRecord \/ Find \/ Delete

SpecBook == InitBook /\ [][NextBook]_vars

HasName(bk, n) == \E i \in 1..Len(bk) : bk[i].name = n

\* the entry stored under n, as a set: empty when n is not a key
EntryOf(bk, n) == {bk[i] : i \in {j \in 1..Len(bk) : bk[j].name = n}}

\* C9: delete(name) of an absent name raises the not-found KeyError and
\* leaves the book unchanged; of a present name it removes exactly that
\* entry and leaves every other entry unchanged, and every later find(name)
\* returns None until an add_record for that name.
C9_DeleteFrame ==
    /\ (call.op = "delete" /\ ~HasName(call.before, call.a1))
       => (call.exc = KeyError("Contact not found.") /\ book = call.before)
    /\ (call.op = "delete" /\ HasName(call.before, call.a1))
       => (/\ ~Raised(call)
           /\ EntryOf(book, call.a1) = {}
           /\ Len(book) = Len(call.before) - 1
           /\ \A m \in ValidNames \ {call.a1} :
                 EntryOf(book, m) = EntryOf(call.before, m))
    /\ \A n \in gone : IsNone(find(book, n))
    /\ (call.op = "find" /\ call.a1 \in gone) => IsNone(out.data)

C9_Witness ==
    /\ call.op = "find"
    /\ call.a1 \in gone
    /\ Len(book) >= 1
    /\ IsNone(out.data)

C9_WitnessAbsent ==
    /\ call.op = "delete"
    /\ Raised(call)
    /\ Len(book) >= 1

\* ------------------------------------------------------------------------
\* get_upcoming_birthdays
\* ------------------------------------------------------------------------
\* value.replace(year=y), with the except branch that substitutes 28 February
\* when replace raises ValueError
ReplaceYear(dt, y) == IF ValidDate(y, dt.m, dt.d) THEN Date(y, dt.m, dt.d)
                      ELSE Date(y, 2, 28)

\* the local birthday_this_year when days_diff is computed: the birthday in
\* today's year, and that date moved to the next year when it is before today
birthday_this_year(b, t) ==
    LET this == ReplaceYear(b, t.y)
    IN  IF DateLess(this, t) THEN ReplaceYear(this, t.y + 1) ELSE this

days_diff(b, t) == toordinal(birthday_this_year(b, t)) - toordinal(t)

congratulation_date_short(bty) ==
    IF weekday(bty) \in WEEKEND_DAYS THEN AddDays(bty, 6 - weekday(bty)) ELSE bty

\* the weekend shift of the congratulation date
congratulation_date(bty) ==
    IF weekday(bty) \in WEEKEND_DAYS THEN AddDays(bty, 7 - weekday(bty)) ELSE bty

in_window_open(dd) == 0 <= dd /\ dd < 7

\* the test 0 <= days_diff <= 7
in_window(dd) == 0 <= dd /\ dd <= 7

\* the loop over book.data.values(), from record i on
RECURSIVE UpcomingFrom(_, _, _)
UpcomingFrom(bk, t, i) ==
    IF i > Len(bk) THEN <<>>
    ELSE IF IsNone(bk[i].birthday) THEN UpcomingFrom(bk, t, i + 1)
    ELSE LET b == bk[i].birthday[1]
             bty == birthday_this_year(b, t)
         IN  IF in_window(days_diff(b, t))
             THEN <<[name |-> bk[i].name,
                     date |-> strftime(congratulation_date(bty))]>>
                  \o UpcomingFrom(bk, t, i + 1)
             ELSE UpcomingFrom(bk, t, i + 1)

get_upcoming_birthdays(bk, t) == UpcomingFrom(bk, t, 1)

\* the value of birthday_this_year for each record that has a birthday
RECURSIVE ProjectedFrom(_, _, _)
ProjectedFrom(bk, t, i) ==
    IF i > Len(bk) THEN <<>>
    ELSE IF IsNone(bk[i].birthday) THEN ProjectedFrom(bk, t, i + 1)
    ELSE <<[name |-> bk[i].name,
            date |-> birthday_this_year(bk[i].birthday[1], t)]>>
         \o ProjectedFrom(bk, t, i + 1)

\* ------------------------------------------------------------------------
\* The scheduler over every today of 2023..MaxYear
\* ------------------------------------------------------------------------
\* 2023 is followed by a leap year, 2024 is one, 2025 is neither
TodayYears == 2023..MaxYear

Todays == {dt \in [y : TodayYears, m : 1..12, d : 1..31] :
              ValidDate(dt.y, dt.m, dt.d)}

\* every day of the leap year 2000
SchedBirthdays == {dt \in [y : {2000}, m : 1..12, d : 1..31] :
                      ValidDate(dt.y, dt.m, dt.d)}

CoreBirthdays == {None, <<Date(2000, 2, 29)>>, <<Date(1990, 12, 22)>>,
                  <<Date(1990, 1, 1)>>}

SchedRecord(n, b) == [name |-> n, phones |-> <<>>, birthday |-> b]

\* books of one record with any of the birthdays or none, and books of two
\* records
SchedBooks ==
    {<<SchedRecord(ValidName(1), b)>> : b \in {<<x>> : x \in SchedBirthdays} \cup {None}}
    \cup {<<SchedRecord(ValidName(1), b1), SchedRecord(ValidName(2), b2)>> :
             b1 \in CoreBirthdays, b2 \in CoreBirthdays}

InitSched == /\ today \in Todays
             /\ book \in SchedBooks
             /\ upcoming = <<>>
             /\ projected = <<>>
             /\ pc = "sched"
             /\ gone = {} /\ call = NoCall
             /\ IdleRecord /\ IdleSession /\ IdleBirthday

\* one call of get_upcoming_birthdays(book) on a day today
Upcoming ==
    /\ pc = "sched"
    /\ upcoming' = get_upcoming_birthdays(book, today)
    /\ projected' = ProjectedFrom(book, today, 1)
    /\ pc' = "reported"
    /\ UNCHANGED <<phones, call, book, gone, disk, out, cmd, today, text,
                   bval, shown, again>>

NextSched == Upcoming

SpecSched == InitSched /\ [][NextSched]_vars

\* The claims' reading of the projection: month and day in year y, 28
\* February when that date does not exist
ClaimProject(b, y) == IF b.m = 2 /\ b.d = 29 /\ ~IsLeap(y) THEN Date(y, 2, 28)
                      ELSE Date(y, b.m, b.d)

\* the next occurrence on or after today
ClaimNext(b, t) == IF DateLess(ClaimProject(b, t.y), t)
                   THEN ClaimProject(b, t.y + 1)
                   ELSE ClaimProject(b, t.y)

ClaimDaysDiff(b, t) == toordinal(ClaimNext(b, t)) - toordinal(t)

\* dt is an occurrence of the birthday b
Occurs(b, dt) == \/ dt.m = b.m /\ dt.d = b.d
                 \/ b.m = 2 /\ b.d = 29 /\ dt.m = 2 /\ dt.d = 28 /\ ~IsLeap(dt.y)

\* an occurrence of b falls on today or one of the next seven days
WithinWeek(b, t) == \E k \in 0..7 : Occurs(b, AddDays(t, k))

EntriesOf(n) == {j \in 1..Len(upcoming) : upcoming[j].name = n}

Expected(r) == ~IsNone(r.birthday) /\ ClaimDaysDiff(r.birthday[1], today) \in 0..7

\* C4: get_upcoming_birthdays emits exactly one entry for a record if and
\* only if the record has a birthday and 0 <= daysDiff <= 7, daysDiff being
\* the days from today to the next occurrence of the birthday on or after
\* today; every other record produces no entry.
C4_WindowMembership ==
    pc = "reported" =>
        /\ \A i \in 1..Len(book) :
              /\ Cardinality(EntriesOf(book[i].name)) = (IF Expected(book[i]) THEN 1 ELSE 0)
              /\ ~IsNone(book[i].birthday)
                 => (Expected(book[i]) <=> WithinWeek(book[i].birthday[1], today))
        /\ \A j \in 1..Len(upcoming) : HasName(book, upcoming[j].name)

C4_Witness ==
    /\ pc = "reported"
    /\ Len(book) = 2
    /\ Len(upcoming) = 1
    /\ upcoming[1].name = book[2].name
    /\ ~IsNone(book[1].birthday)
    /\ ClaimDaysDiff(book[2].birthday[1], today) = 7

FirstMondayAfter(dt) ==
    AddDays(dt, CHOOSE k \in 1..7 : weekday(AddDays(dt, k)) = 0)

\* C5: every emitted congratulation date is the projected birthday when that
\* falls on Monday to Friday and the first Monday after it when it falls on
\* Saturday (+2) or Sunday (+1); no emitted date is a Saturday or Sunday;
\* a record inside the window is emitted whatever its shifted date is.
C5_WeekendShift ==
    pc = "reported" =>
        /\ \A j \in 1..Len(upcoming) :
              LET r == book[IndexOf(book, upcoming[j].name)]
                  p == ClaimNext(r.birthday[1], today)
                  e == strptime(upcoming[j].date)
              IN  /\ ~IsNone(e)
                  /\ weekday(e[1]) \notin {5, 6}
                  /\ weekday(p) \in 0..4 => e[1] = p
                  /\ weekday(p) = 5 => e[1] = AddDays(p, 2)
                  /\ weekday(p) = 6 => e[1] = AddDays(p, 1)
                  /\ weekday(p) \in {5, 6} => e[1] = FirstMondayAfter(p)
        /\ \A i \in 1..Len(book) : Expected(book[i]) => EntriesOf(book[i].name) # {}

\* a Sunday seven days ahead is emitted with the Monday eight days ahead
C5_Witness ==
    /\ pc = "reported"
    /\ Len(upcoming) = 1
    /\ ClaimDaysDiff(book[1].birthday[1], today) = 7
    /\ upcoming[1].date = strftime(AddDays(today, 8))

\* C6: for a record whose birthday is 29 February the projected date is
\* 29 February of the target year when that year is a leap year and
\* 28 February when it is not, the target year being today's year, or the
\* next year when the date in today's year is strictly before today.
C6_LeapProjection ==
    pc = "reported" =>
        \A j \in 1..Len(projected) :
            LET b == book[IndexOf(book, projected[j].name)].birthday[1]
            IN  (b.m = 2 /\ b.d = 29) => projected[j].date = ClaimNext(b, today)

\* ------------------------------------------------------------------------
\* Birthday: construction, str() and construction from the rendering
\* ------------------------------------------------------------------------
BirthYears == {1999 + i : i \in 1..NumBirthYears}

\* every DD-MM-YYYY string with a day up to 31 (30-02-2000 among them), and
\* three strings of another shape
BirthdayInputs ==
    {strftime(Date(y, m, d)) : y \in BirthYears, m \in 1..12, d \in 1..31}
    \cup {<<"2", "0", "0", "0", "1", "2", "2", "2">>,
          <<"1", "-", "2", "-", "2", "0", "0", "0">>,
          <<"0", "1", "-", "0", "2", "-", "0", "0", "0", "0">>}

InitBirthday == /\ text \in BirthdayInputs
                /\ bval = None
                /\ shown = <<>>
                /\ again = None
                /\ call = NoCall
                /\ pc = "text"
                /\ IdleRecord /\ IdleBook /\ IdleSession /\ IdleSched

\* Birthday(text)
Construct ==
    /\ pc = "text"
    /\ LET r == Birthday(text)
       IN  /\ bval' = r.val
           /\ call' = [NoCall EXCEPT !.op = "Birthday", !.exc = r.exc]
           /\ pc' = IF Raised(r) THEN "rejected" ELSE "built"
    /\ UNCHANGED <<phones, book, gone, disk, out, cmd, today, upcoming,
                   projected, text, shown, again>>

\* str(birthday)
Str ==
    /\ pc = "built"
    /\ shown' = BirthdayStr(bval[1])
    /\ pc' = "shown"
    /\ UNCHANGED <<phones, call, book, gone, disk, out, cmd, today, upcoming,
                   projected, text, bval, again>>

\* Birthday(str(birthday))
Reparse ==
    /\ pc = "shown"
    /\ LET r == Birthday(shown)
       IN  /\ again' = r.val
           /\ call' = [NoCall EXCEPT !.op = "Birthday", !.exc = r.exc]
    /\ pc' = "reparsed"
    /\ UNCHANGED <<phones, book, gone, disk, out, cmd, today, upcoming,
                   projected, text, bval, shown>>

NextBirthday == Construct \/ Str \/ Reparse

SpecBirthday == InitBirthday /\ [][NextBirthday]_vars

\* C3: for every Birthday D built from a valid DD-MM-YYYY string, str(D)
\* renders D in DD-MM-YYYY, and Birthday(str(D)) succeeds with a date equal
\* to D.
C3_RoundTrip ==
    /\ pc \in {"shown", "reparsed"} => shown = strftime(bval[1])
    /\ pc = "reparsed" => (~Raised(call) /\ again = bval)

\* ------------------------------------------------------------------------
\* Command handlers
\* ------------------------------------------------------------------------
Raise(bk, e) == [book |-> bk, ret |-> NoOut, exc |-> e]

Return(bk, m) == [book |-> bk, ret |-> m, exc |-> NoExc]

\* the decorator input_error: an exception of the handler becomes the
\* returned message
input_error(r) ==
    IF ~Raised(r) THEN r
    ELSE IF r.exc.type = "ValueError" THEN Return(r.book, Msg(r.exc.msg))
    ELSE IF r.exc.type = "KeyError" THEN Return(r.book, Msg(r.exc.msg))
    ELSE IF r.exc.type = "IndexError" THEN Return(r.book, Msg("Enter user name."))
    ELSE Return(r.book, Msg("An unexpected error occurred"))

\* record.add_phone(phone) on the record stored under name
RecordAddPhone(bk, name, phone, message) ==
    LET i == IndexOf(bk, name)
        r == add_phone(bk[i].phones, phone)
    IN  [book |-> [bk EXCEPT ![i].phones = r.phones],
         ret |-> IF Raised(r) THEN NoOut ELSE Msg(message),
         exc |-> r.exc]

\* add_contact, before the decorator
add_contact_body(args, bk) ==
    IF Len(args) < 2 THEN Raise(bk, ValueError("Usage: add [name] [phone]"))
    ELSE LET name == args[1]
             phone == args[2]
         IN  IF ~PhoneOk(phone) THEN Raise(bk, PhoneError)
             ELSE IF IsNone(find(bk, name))
             THEN IF ~NameOk(name) THEN Raise(bk, NameError)
                  ELSE RecordAddPhone(add_record(bk, NewRecord(name)), name, phone,
                                      "Contact added.")
             ELSE RecordAddPhone(bk, name, phone, "Contact updated.")

add_contact(args, bk) == input_error(add_contact_body(args, bk))

\* change_contact_phone, before the decorator
change_contact_phone_body(args, bk) ==
    IF Len(args) < 3
    THEN Raise(bk, ValueError("Usage: change [name] [old_phone] [new_phone]"))
    ELSE LET name == args[1]
             i == IndexOf(bk, name)
         IN  IF IsNone(find(bk, name)) THEN Raise(bk, KeyError("Contact not found."))
             ELSE LET r == edit_phone(bk[i].phones, args[2], args[3])
                  IN  [book |-> [bk EXCEPT ![i].phones = r.phones],
                       ret |-> IF Raised(r) THEN NoOut
                               ELSE Msg("Contact phone number updated."),
                       exc |-> r.exc]

change_contact_phone(args, bk) == input_error(change_contact_phone_body(args, bk))

\* show_phone, before the decorator
show_phone_body(args, bk) ==
    IF Len(args) < 1 THEN Raise(bk, ValueError("Usage: phone [name]"))
    ELSE LET record == find(bk, args[1])
         IN  IF IsNone(record) THEN Raise(bk, KeyError("Contact not found."))
             ELSE Return(bk, [kind |-> "phones", data |-> record[1].phones])

show_phone(args, bk) == input_error(show_phone_body(args, bk))

\* add_birthday, before the decorator
add_birthday_body(args, bk) ==
    IF Len(args) < 2
    THEN Raise(bk, ValueError("Usage: add-birthday [name] [birthday date]"))
    ELSE LET name == args[1]
             i == IndexOf(bk, name)
             b == Birthday(args[2])
         IN  IF IsNone(find(bk, name)) THEN Raise(bk, KeyError("Contact not found."))
             ELSE IF Raised(b) THEN Raise(bk, b.exc)
             ELSE Return([bk EXCEPT ![i].birthday = b.val],
                         IF IsNone(bk[i].birthday)
                         THEN Msg("Contact's birthday added")
                         ELSE Msg("Contact's birthday updated"))

add_birthday(args, bk) == input_error(add_birthday_body(args, bk))

\* show_birthday, before the decorator
show_birthday_body(args, bk) ==
    IF Len(args) < 1 THEN Raise(bk, ValueError("Usage: show-birthday [name]"))
    ELSE LET record == find(bk, args[1])
         IN  IF IsNone(record) THEN Raise(bk, KeyError("Contact not found."))
             ELSE IF IsNone(record[1].birthday)
             THEN Return(bk, Msg("Birthday not set."))
             ELSE Return(bk, [kind |-> "birthday",
                              data |-> BirthdayStr(record[1].birthday[1])])

show_birthday(args, bk) == input_error(show_birthday_body(args, bk))

\* format_birthdays: the table is kept as its rows
format_birthdays(up) ==
    IF Len(up) = 0 THEN Msg("No upcoming birthdays in the next 7 days.")
    ELSE [kind |-> "table", data |-> up]

\* show_all: the table is kept as its rows, one per record
show_all(bk) ==
    IF Len(bk) = 0 THEN Msg("Address book is empty.")
    ELSE [kind |-> "table",
          data |-> [i \in 1..Len(bk) |-> [name |-> bk[i].name, phones |-> bk[i].phones]]]

\* delete_record; it has no decorator
delete_record(args, bk) ==
    IF Len(args) < 1 THEN Raise(bk, ValueError("Usage: del [name]"))
    ELSE delete(bk, args[1])

\* save_data: the file holds the pickled book
save_data(bk) == <<bk>>

\* load_data: the pickled book, or a new AddressBook when there is no file
load_data(file) == IF IsNone(file) THEN <<>> ELSE file[1]

\* ------------------------------------------------------------------------
\* main: one process from load_data to its end
\* ------------------------------------------------------------------------
LongName == Repeat("n", MAX_NAME_LENGTH + 1)

SessionNames == {ValidName(1), ValidName(2), LongName}

SessionValues == {ValidPhone(1), ValidPhone(2), Repeat("0", PHONE_LENGTH - 1),
                  strftime(Date(1990, 12, 22)), strftime(Date(2000, 2, 29)),
                  strftime(Date(2000, 2, 31))}

\* the argument lists typed after a command, by length
Args0 == {<<>>}

Args1 == {<<n>> : n \in SessionNames}

Args2 == {<<n, v>> : n \in SessionNames, v \in SessionValues}

Args3 == {<<n, v, w>> : n \in SessionNames, v \in SessionValues, w \in SessionValues}

\* the days date.today() returns during a session
SessionTodays == {Date(2024, 12, 20), Date(2025, 2, 26)}

\* a file written by an earlier session
SavedBook == <<[name |-> ValidName(1), phones |-> <<ValidPhone(1)>>, birthday |-> None]>>

Commands == {"add", "change", "phone", "all", "add-birthday", "show-birthday",
             "birthdays", "del"}

Init == /\ pc = "start"
        /\ disk \in {None, save_data(SavedBook)}
        /\ book = <<>>
        /\ out = NoOut
        /\ cmd = ""
        /\ gone = {} /\ call = NoCall
        /\ IdleRecord /\ IdleSched /\ IdleBirthday

Others == <<phones, call, gone, today, upcoming, projected, text, bval, shown, again>>

\* book = load_data()
Load ==
    /\ pc = "start"
    /\ book' = load_data(disk)
    /\ pc' = "loop"
    /\ UNCHANGED <<disk, out, cmd>>
    /\ UNCHANGED Others

\* one pass of the loop that prints message m and changes nothing else
Say(c, m) ==
    /\ pc = "loop"
    /\ cmd' = c
    /\ out' = m
    /\ UNCHANGED <<book, disk, pc>>
    /\ UNCHANGED Others

\* one pass of the loop that calls a handler with result r: its return value
\* is printed, and an exception it lets through ends the process
Run(c, r) ==
    /\ pc = "loop"
    /\ cmd' = c
    /\ book' = r.book
    /\ IF Raised(r)
       THEN pc' = "crashed" /\ out' = Msg("Traceback")
       ELSE pc' = pc /\ out' = r.ret
    /\ UNCHANGED disk
    /\ UNCHANGED Others

\* an empty line: continue
Blank == Say("", NoOut)

\* KeyboardInterrupt raised by input(): save_data, "Good bye!", break
Interrupt ==
    /\ pc = "loop"
    /\ disk' = save_data(book)
    /\ out' = Msg("Good bye!")
    /\ cmd' = "^C"
    /\ pc' = "exited"
    /\ UNCHANGED book
    /\ UNCHANGED Others

\* EOFError raised by input() at end of input: no except clause catches it
Eof ==
    /\ pc = "loop"
    /\ out' = Msg("Traceback")
    /\ cmd' = "^D"
    /\ pc' = "crashed"
    /\ UNCHANGED <<book, disk>>
    /\ UNCHANGED Others

\* close, exit: "Good bye!", save_data, break
Exit ==
    /\ pc = "loop"
    /\ disk' = save_data(book)
    /\ out' = Msg("Good bye!")
    /\ cmd' = "exit"
    /\ pc' = "exited"
    /\ UNCHANGED book
    /\ UNCHANGED Others

Hello == Say("hello", Msg("How can I help you?"))

Help == Say("help", Msg("command list"))

Invalid == Say("invalid", Msg("Invalid command."))

Add == \E args \in Args0 \cup Args1 \cup Args2 : Run("add", add_contact(args, book))

Change == \E args \in Args0 \cup Args2 \cup Args3 :
    Run("change", change_contact_phone(args, book))

Phone == \E args \in Args0 \cup Args1 : Run("phone", show_phone(args, book))

All == Say("all", show_all(book))

AddBirthday == \E args \in Args0 \cup Args1 \cup Args2 :
    Run("add-birthday", add_birthday(args, book))

ShowBirthday == \E args \in Args0 \cup Args1 :
    Run("show-birthday", show_birthday(args, book))

Birthdays == \E t \in SessionTodays :
    Say("birthdays", format_birthdays(get_upcoming_birthdays(book, t)))

Del == \E args \in Args0 \cup Args1 : Run("del", delete_record(args, book))

Next == \/ Load
        \/ Blank
        \/ Interrupt
        \/ Eof
        \/ Exit
        \/ Hello
        \/ Help
        \/ Invalid
        \/ Add
        \/ Change
        \/ Phone
        \/ All
        \/ AddBirthday
        \/ ShowBirthday
        \/ Birthdays
        \/ Del

Spec == Init /\ [][Next]_vars

\* C2: every command of the interpreter, with every argument list, yields a
\* user-facing message and leaves the session in its command loop.
C2_CommandsNeverCrash ==
    cmd \in Commands => (pc = "loop" /\ out.kind \notin {"", "Traceback"})

\* C10: whenever the process has ended, the file holds the book as the last
\* command left it: what load_data would read back is the session's book.
C10_SavedOnEveryExit ==
    pc \in {"exited", "crashed"} => load_data(disk) = book

====
